---- MODULE Spec2Model ----
(***************************************************************************)
(* A model of timeline_viz: find_clusters, plot_timeline and               *)
(* plot_multiple_timelines of src/timeline.py.                             *)
(*                                                                         *)
(* Instants are matplotlib date numbers: days, kept as integers.  Python   *)
(* lists and numpy arrays are sequences; Python positions are 0-based and  *)
(* are kept 0-based wherever the code stores them (cluster_indices,        *)
(* break_indices, start_idx).                                              *)
(***************************************************************************)
EXTENDS Integers, Sequences, FiniteSets, TLC

(***************************************************************************)
(* Bounds of the model.                                                    *)
(***************************************************************************)
MaxLen == 4      \* longest dates_num handed to find_clusters directly
MaxDay == 4      \* instants are 0..MaxDay

Instants == 0..MaxDay

\* threshold_days values tried: negative, zero and positive ones.
Thresholds == {-1, 0, 1, 2}

\* float('nan'): what date2num gives for NaT.  It is encoded as an integer outside
\* the range of every instant and every gap; every comparison with it is false.
NaN == -1000 - MaxDay

(***************************************************************************)
(* find_clusters (src/timeline.py 60-105)                                  *)
(***************************************************************************)

\* range(a, b) as a list
PyRange(a, b) == [j \in 1..(IF b > a THEN b - a ELSE 0) |-> a + j - 1]

\* seq[a:b] for 0 <= a, b <= len(seq)
PySlice(seq, a, b) == SubSeq(seq, a + 1, b)

\* np.diff(dates_num): gaps[i] = dates_num[i+1] - dates_num[i]; nan propagates
np_diff(dates_num) ==
    [i \in 1..(Len(dates_num) - 1) |->
        IF dates_num[i] = NaN \/ dates_num[i + 1] = NaN
        THEN NaN
        ELSE dates_num[i + 1] - dates_num[i]]

\* a variant that also splits at a gap equal to the threshold
GapExceeds_ge(gap, threshold) == gap # NaN /\ gap >= threshold

\* gaps > threshold, elementwise (False for nan)
GapExceeds(gap, threshold) == gap # NaN /\ gap > threshold

\* np.where(gaps > threshold)[0]: the 0-based positions, ascending
break_indices(gaps, threshold) ==
    LET idx == [i \in 1..Len(gaps) |-> i - 1]
        Hit(i) == GapExceeds(gaps[i + 1], threshold)
    IN  SelectSeq(idx, Hit)

\* the for loop of lines 95-99 from its k-th iteration on, then lines 101-103
RECURSIVE ClusterLoop(_, _, _, _, _, _)
ClusterLoop(dates_num, brk, k, start_idx, clusters, cluster_indices) ==
    IF k > Len(brk)
    THEN [clusters        |-> Append(clusters, PySlice(dates_num, start_idx, Len(dates_num))),
          cluster_indices |-> Append(cluster_indices, PyRange(start_idx, Len(dates_num)))]
    ELSE LET idx == brk[k]
         IN  ClusterLoop(dates_num, brk, k + 1, idx + 1,
                         Append(clusters, PySlice(dates_num, start_idx, idx + 1)),
                         Append(cluster_indices, PyRange(start_idx, idx + 1)))

\* a variant that forgets the final cluster of lines 101-103
find_clusters_nofinal(dates_num, threshold_days) ==
    LET r == ClusterLoop(dates_num, break_indices(np_diff(dates_num), threshold_days),
                         1, 0, <<>>, <<>>)
    IN  IF Len(dates_num) <= 1
        THEN [clusters        |-> <<dates_num>>,
              cluster_indices |-> IF Len(dates_num) = 1 THEN << <<0>> >> ELSE << <<>>, <<>> >>]
        ELSE [clusters        |-> SubSeq(r.clusters, 1, Len(r.clusters) - 1),
              cluster_indices |-> SubSeq(r.cluster_indices, 1, Len(r.cluster_indices) - 1)]

\* a variant whose line-79 test is len(dates_num) == 0
find_clusters_len0(dates_num, threshold_days) ==
    IF Len(dates_num) <= 1
    THEN [clusters        |-> <<dates_num>>,
          cluster_indices |-> IF Len(dates_num) = 0 THEN << <<0>> >> ELSE << <<>>, <<>> >>]
    ELSE ClusterLoop(dates_num, break_indices(np_diff(dates_num), threshold_days),
                     1, 0, <<>>, <<>>)

\* find_clusters(dates_num, threshold_days): the pair (clusters, cluster_indices).
\* Line 79 parses as  return ([dates_num]), ([[0]] if len == 1 else [[], []]).
find_clusters(dates_num, threshold_days) ==
    IF Len(dates_num) <= 1
    THEN [clusters        |-> <<dates_num>>,
          cluster_indices |-> IF Len(dates_num) = 1 THEN << <<0>> >> ELSE << <<>>, <<>> >>]
    ELSE ClusterLoop(dates_num, break_indices(np_diff(dates_num), threshold_days),
                     1, 0, <<>>, <<>>)

(***************************************************************************)
(* Strings.  A Python str is a sequence of one-character strings, so that  *)
(* suffix tests, replacements and case changes are computed.               *)
(***************************************************************************)
LowerCase == <<"a","b","c","d","e","f","g","h","i","j","k","l","m",
               "n","o","p","q","r","s","t","u","v","w","x","y","z">>
UpperCase == <<"A","B","C","D","E","F","G","H","I","J","K","L","M",
               "N","O","P","Q","R","S","T","U","V","W","X","Y","Z">>
Digits    == <<"0","1","2","3","4","5","6","7","8","9">>

InSeq(c, s) == \E i \in 1..Len(s) : s[i] = c
IndexOf(c, s) == CHOOSE i \in 1..Len(s) : s[i] = c

isalpha(c) == InSeq(c, LowerCase) \/ InSeq(c, UpperCase)
isalnum(c) == isalpha(c) \/ InSeq(c, Digits)
upper(c) == IF InSeq(c, LowerCase) THEN UpperCase[IndexOf(c, LowerCase)] ELSE c
lower(c) == IF InSeq(c, UpperCase) THEN LowerCase[IndexOf(c, UpperCase)] ELSE c

\* str.lower()
str_lower(s) == [i \in 1..Len(s) |-> lower(s[i])]

\* str.title(): a letter is upper-cased after a non-letter (or at the start) and
\* lower-cased after a letter
str_title(s) ==
    [i \in 1..Len(s) |->
        IF i = 1 \/ ~isalpha(s[i - 1]) THEN upper(s[i]) ELSE lower(s[i])]

\* str.endswith(suffix), str.startswith(prefix), `sub in s`
endswith(s, suffix) ==
    /\ Len(suffix) <= Len(s)
    /\ SubSeq(s, Len(s) - Len(suffix) + 1, Len(s)) = suffix
startswith(s, prefix) ==
    /\ Len(prefix) <= Len(s)
    /\ SubSeq(s, 1, Len(prefix)) = prefix
contains(s, sub) ==
    \E i \in 1..(Len(s) - Len(sub) + 1) : SubSeq(s, i, i + Len(sub) - 1) = sub

\* str.replace('_', ' ').replace('-', ' ')
replace_separators(s) ==
    [i \in 1..Len(s) |-> IF s[i] = "_" \/ s[i] = "-" THEN " " ELSE s[i]]

\* str(n) for 0 <= n <= 9
str_int(n) == <<Digits[n + 1]>>

(***************************************************************************)
(* clean_column_name (src/timeline.py 29-58)                               *)
(***************************************************************************)
\* plot_timeline's default for remove_suffixes (line 175)
DefaultRemoveSuffixes ==
    << <<"_","u","t","c">>, <<"_","a","t">>, <<"_","t","i","m","e">>, <<"_","d","a","t","e">> >>

\* lines 48-52: the first suffix that matches is removed, and only that one
RECURSIVE strip_first_suffix(_, _, _)
strip_first_suffix(name, suffixes, k) ==
    IF k > Len(suffixes) THEN name
    ELSE IF endswith(name, suffixes[k])
         THEN SubSeq(name, 1, Len(name) - Len(suffixes[k]))
         ELSE strip_first_suffix(name, suffixes, k + 1)

clean_column_name(column_name, remove_suffixes) ==
    str_title(replace_separators(strip_first_suffix(column_name, remove_suffixes, 1)))

(***************************************************************************)
(* detect_timestamp_columns: imported from utils (src/timeline.py 15) but  *)
(* not defined in src/utils.py; modelled from the interface description:   *)
(* suffixes _utc, _at, _time, _date; substrings timestamp, datetime;       *)
(* prefixes date, time; names containing invalid are excluded.             *)
(***************************************************************************)
looks_like_timestamp(name) ==
    /\ ~contains(name, <<"i","n","v","a","l","i","d">>)
    /\ \/ \E k \in 1..Len(DefaultRemoveSuffixes) : endswith(name, DefaultRemoveSuffixes[k])
       \/ contains(name, <<"t","i","m","e","s","t","a","m","p">>)
       \/ contains(name, <<"d","a","t","e","t","i","m","e">>)
       \/ startswith(name, <<"d","a","t","e">>)
       \/ startswith(name, <<"t","i","m","e">>)

detect_timestamp_columns(columns) == SelectSeq(columns, looks_like_timestamp)

(***************************************************************************)
(* Cells of the input table                                                *)
(***************************************************************************)
\* a cell is missing (None / NaN / NaT), a string that is no timestamp, or a
\* timestamp of a given day
NA == [kind |-> "na", day |-> 0]
Bad == [kind |-> "bad", day |-> 0]
TS(d) == [kind |-> "ts", day |-> d]

Cells == {NA, Bad} \cup {TS(d) : d \in Instants}

\* pd.NaT, encoded like NaN
NaT == -2000 - MaxDay

\* pd.notna(value)
notna(cell) == cell.kind # "na"

\* parse_timestamps(data, col, normalize_tz=True).iloc[0] (src/utils.py 160-240)
\* with the default errors='coerce': pd.to_datetime turns what it cannot parse
\* into NaT; a naive timestamp is left as it is.
parse_timestamps(cell) ==
    IF cell.kind = "ts" THEN cell.day ELSE NaT

(***************************************************************************)
(* np.argsort and date2num as plot_timeline uses them (lines 216-221)      *)
(***************************************************************************)
\* Timestamp < Timestamp; every comparison with NaT is False
ts_less(a, b) == a # NaT /\ b # NaT /\ a < b

\* One pass of the insertion sort numpy runs on arrays of at most 16 elements:
\* position vi moves left past every position whose value is greater.
RECURSIVE insert_index(_, _, _)
insert_index(values, order, vi) ==
    IF order = <<>> THEN <<vi>>
    ELSE LET last == order[Len(order)]
         IN  IF ts_less(values[vi + 1], values[last + 1])
             THEN Append(insert_index(values, SubSeq(order, 1, Len(order) - 1), vi), last)
             ELSE Append(order, vi)

RECURSIVE argsort_from(_, _, _)
argsort_from(values, order, vi) ==
    IF vi >= Len(values) THEN order
    ELSE argsort_from(values, insert_index(values, order, vi), vi + 1)

\* np.argsort(timestamps): the 0-based positions in ascending order of value
np_argsort(values) == argsort_from(values, <<>>, 0)

\* [values[i] for i in sorted_indices]
take(values, sorted_indices) ==
    [k \in 1..Len(sorted_indices) |-> values[sorted_indices[k] + 1]]

\* mdates.date2num(timestamps), where it accepts NaT: NaT becomes nan
date2num(timestamps) ==
    [k \in 1..Len(timestamps) |-> IF timestamps[k] = NaT THEN NaN ELSE timestamps[k]]

(***************************************************************************)
(* Inputs                                                                  *)
(***************************************************************************)
\* column names: "a_at", "b-x" and "datec" are columns of the table, "z_at" is not
ColA == <<"a","_","a","t">>
ColB == <<"b","-","x">>
ColC == <<"d","a","t","e","c">>
ColZ == <<"z","_","a","t">>

\* timestamp_columns=None
None == << <<"None">> >>

\* label_mappings: one column has a custom label ("Start"), the others have none
LabelMappings == (ColA :> <<"S","t","a","r","t">>)

Range(seq) == {seq[i] : i \in 1..Len(seq)}

SeqsUpTo(S, n) == UNION {[1..k -> S] : k \in 0..n}

(***************************************************************************)
(* State                                                                   *)
(***************************************************************************)
VARIABLES
    \* find_clusters: arguments and results (also locals of plot_timeline)
    fc_pc,             \* a direct call of find_clusters: "idle", "call", "returned"
    dates_num,
    threshold_days,
    clusters,
    cluster_indices,
    \* plot_timeline: arguments and locals
    pt_pc,             \* "idle", "start", "clustered", "rendered", "returned", "raised"
    columns,           \* data.columns
    data,              \* the first row of data: column name -> cell
    timestamp_columns,
    label_mappings,
    entity_id,
    title,
    show_plot,
    output_file,       \* <<>> for None, else <<directory, file name>>
    timestamps,
    labels,
    fig,               \* the figure returned: 0 for None, else its number in figures
    axs,               \* the axes drawn so far, one per cluster
    slashes,           \* the break-marker lines drawn so far
    exception,         \* the exception that left the call, "" if none
    \* plot_multiple_timelines: arguments and locals
    pmt_pc,            \* "idle", "start", "loop", "in_plot", "returned", "raised"
    df,                \* the table: its columns, its number of rows, its id column
    id_column,         \* <<>> for None
    detect_timestamps,
    output_dir,        \* "" for None
    max_entities,      \* NoLimit for None
    color_scheme,      \* a dict: key -> colour; NoScheme for None
    entity_ids,
    pos,               \* how many entity_ids the for loop has taken
    processed_entities,
    row_valid,         \* per entity taken: did its row hold a timestamp in a selected column
    \* matplotlib and the file system
    figures,           \* every figure created by plt.subplots, in order
    files,             \* the image files written by savefig
    dirs,              \* the directories that exist
    \* parse_timestamps, format_timestamp and the re-parsing of a display string
    ts_pc,             \* "idle", "call", "returned", "raised", "formatted", "reparsed"
    series,            \* df[column]: the raw values
    errors,            \* "coerce", "raise" or "ignore"
    normalize_tz,
    result,            \* the Series returned
    display,           \* format_timestamp of the first timestamp returned
    reparsed,          \* datetime.strptime(display, detect_date_format(display))
    \* cli.main
    cli_pc,            \* "idle", "start", "in_batch", "done"
    args,              \* what parse_args returned
    exit_code          \* the value main returned, -1 while it has not

fcVars == <<fc_pc, dates_num, threshold_days, clusters, cluster_indices>>
ptArgs == <<columns, data, timestamp_columns, label_mappings, entity_id, title,
            show_plot, output_file>>
ptVars == <<pt_pc, timestamps, labels, fig, axs, slashes, exception>>
pmtArgs == <<df, id_column, detect_timestamps, output_dir, max_entities, color_scheme>>
pmtVars == <<pmt_pc, entity_ids, pos, processed_entities, row_valid>>
world  == <<figures, files, dirs>>
tsVars == <<ts_pc, series, errors, normalize_tz, result, display, reparsed>>
cliVars == <<cli_pc, args, exit_code>>
vars == <<fcVars, ptArgs, ptVars, pmtArgs, pmtVars, world, tsVars, cliVars>>

\* directories of the model: "out" exists and is writable, "ro" exists and is
\* read-only, "new" does not exist and can be created, "nodir" cannot be created
ExistingDirs == {"out", "ro"}
WritableDirs == {"out", "new"}
CreatableDirs == {"new"}

\* max_entities=None
NoLimit == -1000

\* DEFAULT_COLOR_SCHEME (lines 18-27)
DEFAULT_COLOR_SCHEME ==
    [k \in {"line", "point_edge", "point_face", "connector",
            "label_bg", "label_edge", "slashes", "title"} |->
        IF k = "point_face" THEN "#ffe000"
        ELSE IF k = "label_bg" THEN "#f5f5f5"
        ELSE "#0046be"]

\* color_scheme=None
NoScheme == [k \in {"None"} |-> "None"]

\* lines 170-171
scheme_of(scheme) == IF scheme = NoScheme THEN DEFAULT_COLOR_SCHEME ELSE scheme

\* plot_multiple_timelines is not running
IdlePMT ==
    /\ pmt_pc = "idle"
    /\ df = [columns |-> <<>>, n |-> 0, ids |-> <<>>]
    /\ id_column = <<>>
    /\ detect_timestamps = FALSE
    /\ output_dir = ""
    /\ max_entities = NoLimit
    /\ entity_ids = <<>>
    /\ pos = 0
    /\ processed_entities = <<>>
    /\ row_valid = <<>>

\* parse_timestamps is not running
IdleTS ==
    /\ ts_pc = "idle"
    /\ series = <<>>
    /\ errors = "coerce"
    /\ normalize_tz = TRUE
    /\ result = <<>>
    /\ display = <<>>
    /\ reparsed = <<>>

\* the defaults of parse_args (src/cli.py 49-132) for the options the model follows;
\* figsize and threshold_days are kept as whole numbers
DefaultArgs ==
    [csv_exists |-> FALSE, table |-> [columns |-> <<>>, n |-> 0, ids |-> <<>>],
     timestamp_columns |-> None, detect_timestamps |-> FALSE, id_column |-> <<>>,
     output_dir |-> "", max_entities |-> NoLimit, threshold_days |-> 1,
     figsize |-> <<15, 5>>, colors |-> NoScheme, label_mappings |-> <<>>,
     no_show |-> FALSE]

\* cli.main is not running
IdleCLI ==
    /\ cli_pc = "idle"
    /\ args = DefaultArgs
    /\ exit_code = -1

(***************************************************************************)
(* A direct call of find_clusters                                          *)
(***************************************************************************)
InitFC ==
    /\ fc_pc = "call"
    /\ dates_num \in SeqsUpTo(Instants, MaxLen)
    /\ threshold_days \in Thresholds
    /\ clusters = <<>>
    /\ cluster_indices = <<>>
    /\ pt_pc = "idle"
    /\ columns = <<>>
    /\ data = <<>>
    /\ timestamp_columns = None
    /\ label_mappings = <<>>
    /\ entity_id = <<>>
    /\ title = <<>>
    /\ show_plot = FALSE
    /\ output_file = <<>>
    /\ timestamps = <<>>
    /\ labels = <<>>
    /\ fig = 0
    /\ axs = <<>>
    /\ slashes = 0
    /\ exception = ""
    /\ IdlePMT
    /\ color_scheme = NoScheme
    /\ figures = <<>>
    /\ files = {}
    /\ dirs = ExistingDirs
    /\ IdleTS
    /\ IdleCLI

FindClusters ==
    /\ fc_pc = "call"
    /\ LET r == find_clusters(dates_num, threshold_days)
       IN  /\ clusters' = r.clusters
           /\ cluster_indices' = r.cluster_indices
    /\ fc_pc' = "returned"
    /\ UNCHANGED <<dates_num, threshold_days, ptArgs, ptVars, pmtArgs, pmtVars, world>>
    /\ UNCHANGED <<tsVars, cliVars>>

NextFC == FindClusters

SpecFC == InitFC /\ [][NextFC]_vars

(***************************************************************************)
(* plot_timeline (src/timeline.py 123-356)                                 *)
(***************************************************************************)

\* a variant that forgets the pd.notna test of line 195
valid_columns_nonull(cols, row, tcols) ==
    LET Valid(col) == col \in Range(cols)
    IN  SelectSeq(tcols, Valid)

\* lines 194-209: the selected columns that exist and whose first value is not null
valid_columns(cols, row, tcols) ==
    LET Valid(col) == col \in Range(cols) /\ notna(row[col])
    IN  SelectSeq(tcols, Valid)

\* lines 202-207: the label of a column
column_label(col, mappings) ==
    IF col \in DOMAIN mappings
    THEN mappings[col]
    ELSE clean_column_name(col, DefaultRemoveSuffixes)

\* lines 336-339: the default title
default_title(id) ==
    IF id = <<>> THEN <<"T","i","m","e","l","i","n","e">>
    ELSE <<"T","i","m","e","l","i","n","e">> \o <<" ","-"," ","E","n","t","i","t","y"," ">> \o id

PyMin(a, b) == IF a < b THEN a ELSE b

\* min(cluster) and max(cluster) of lines 242-246 on a cluster without nan
RECURSIVE py_min(_)
py_min(cluster) ==
    IF Len(cluster) = 1 THEN cluster[1]
    ELSE PyMin(cluster[1], py_min(Tail(cluster)))

RECURSIVE py_max(_)
py_max(cluster) ==
    IF Len(cluster) = 1 THEN cluster[1]
    ELSE IF cluster[1] > py_max(Tail(cluster)) THEN cluster[1] ELSE py_max(Tail(cluster))

\* a variant that always pads by the fixed tenth of a day
padding_fixed(cluster) == 10

\* lines 242-243, in hundredths of a day: time_range * 0.15 for a cluster of more
\* than one event, else 0.1
padding(cluster) ==
    LET time_range == py_max(cluster) - py_min(cluster)
    IN  IF Len(cluster) > 1 THEN time_range * 15 ELSE 10

\* line 246, in hundredths of a day: the limits handed to ax.set_xlim
xlim(cluster) ==
    <<100 * py_min(cluster) - padding(cluster), 100 * py_max(cluster) + padding(cluster)>>

\* a variant that alternates by the position in the whole timeline
annotations_global(cluster, indices, labs) ==
    [j \in 1..PyMin(Len(cluster), Len(indices)) |->
        [x     |-> cluster[j],
         label |-> labs[indices[j] + 1],
         above |-> (indices[j] % 2 = 0)]]

\* a variant that reads the label at the position inside the cluster
annotations_local(cluster, indices, labs) ==
    [j \in 1..PyMin(Len(cluster), Len(indices)) |->
        [x     |-> cluster[j],
         label |-> labs[j],
         above |-> ((j - 1) % 2 = 0)]]

\* lines 258-286: the annotations of one cluster; zip stops at the shorter list
annotations(cluster, indices, labs) ==
    [j \in 1..PyMin(Len(cluster), Len(indices)) |->
        [x     |-> cluster[j],
         label |-> labs[indices[j] + 1],
         above |-> ((j - 1) % 2 = 0)]]

\* a variant that lays out the first cluster only
axes_of_first(cls, idxs, labs) ==
    [k \in 1..PyMin(1, PyMin(Len(cls), Len(idxs))) |->
        [width_ratio |-> Len(cls[k]),
         padding     |-> padding(cls[k]),
         xlim        |-> xlim(cls[k]),
         points      |-> cls[k],
         annotations |-> annotations(cls[k], idxs[k], labs)]]

\* lines 231-301: one axes per cluster, its width ratio (line 233) and its limits
axes_of(cls, idxs, labs) ==
    [k \in 1..PyMin(Len(cls), Len(idxs)) |->
        [width_ratio |-> Len(cls[k]),
         padding     |-> padding(cls[k]),
         xlim        |-> xlim(cls[k]),
         points      |-> cls[k],
         annotations |-> annotations(cls[k], idxs[k], labs)]]

\* the colours matplotlib accepts among those tried: it raises ValueError on
\* every other value when an artist is given it (lines 249-342)
is_color(c) == c \in {"#0046be", "#ffe000", "#f5f5f5", "#336699"}

\* lines 258-286 of one cluster from its j-th member on: num2date refuses nan
\* (ValueError), then the connector and the label box read their colours
\* (KeyError on a missing key, ValueError on a value that is no colour)
RECURSIVE label_error(_, _, _)
label_error(cluster, j, scheme) ==
    IF j > Len(cluster) THEN ""
    ELSE IF cluster[j] = NaN THEN "ValueError"
    ELSE IF "connector" \notin DOMAIN scheme THEN "KeyError"
    ELSE IF ~is_color(scheme["connector"]) THEN "ValueError"
    ELSE IF ~({"label_bg", "label_edge"} \subseteq DOMAIN scheme) THEN "KeyError"
    ELSE IF ~is_color(scheme["label_bg"]) \/ ~is_color(scheme["label_edge"]) THEN "ValueError"
    ELSE label_error(cluster, j + 1, scheme)

\* a variant that draws a break after every cluster
break_positions_all(n_clusters) == PyRange(0, n_clusters)

\* line 307: range(n_clusters - 1), the left neighbours of the breaks
break_positions(n_clusters) == PyRange(0, n_clusters - 1)

\* lines 240-342 from the k-th cluster on: the first exception raised while the
\* clusters, the break markers and the title are drawn, "" if there is none.  min(cluster)
\* and max(cluster) are nan exactly when the first member is (every comparison
\* with nan is False), and set_xlim refuses nan (ValueError); color_scheme[key]
\* raises KeyError and a value that is no colour ValueError; the break markers
\* are drawn only between two clusters.
RECURSIVE render_error(_, _, _)
render_error(cls, k, scheme) ==
    IF k > Len(cls)
    THEN IF Len(cls) >= 2 /\ "slashes" \notin DOMAIN scheme THEN "KeyError"
         ELSE IF Len(cls) >= 2 /\ ~is_color(scheme["slashes"]) THEN "ValueError"
         ELSE IF "title" \in DOMAIN scheme /\ ~is_color(scheme["title"]) THEN "ValueError"
         ELSE ""
    ELSE IF cls[k] # <<>> /\ cls[k][1] = NaN THEN "ValueError"
    ELSE IF "line" \notin DOMAIN scheme THEN "KeyError"
    ELSE IF ~is_color(scheme["line"]) THEN "ValueError"
    ELSE IF ~({"point_edge", "point_face"} \subseteq DOMAIN scheme) THEN "KeyError"
    ELSE IF ~is_color(scheme["point_edge"]) \/ ~is_color(scheme["point_face"]) THEN "ValueError"
    ELSE IF label_error(cls[k], 1, scheme) # "" THEN label_error(cls[k], 1, scheme)
    ELSE render_error(cls, k + 1, scheme)

\* lines 169-229: select and parse the columns, sort, cluster
PT_Prepare ==
    /\ pt_pc = "start"
    /\ LET tcols == IF timestamp_columns = None
                    THEN detect_timestamp_columns(columns)
                    ELSE timestamp_columns
           valid == valid_columns(columns, data, tcols)
           ts    == [k \in 1..Len(valid) |-> parse_timestamps(data[valid[k]])]
           labs  == [k \in 1..Len(valid) |-> column_label(valid[k], label_mappings)]
           sorted_indices == np_argsort(ts)
           sorted_ts == take(ts, sorted_indices)
           r == find_clusters(date2num(sorted_ts), threshold_days)
       IN  /\ timestamp_columns' = tcols
           /\ IF tcols = <<>> \/ ts = <<>>
              THEN \* lines 185-187, 211-213: return None, None
                   /\ pt_pc' = "returned"
                   /\ timestamps' = ts
                   /\ labels' = labs
                   /\ UNCHANGED <<dates_num, clusters, cluster_indices, exception>>
              ELSE /\ timestamps' = sorted_ts
                   /\ labels' = take(labs, sorted_indices)
                   /\ \/ \* date2num converts (NaT becomes nan) and find_clusters runs
                         /\ dates_num' = date2num(sorted_ts)
                         /\ clusters' = r.clusters
                         /\ cluster_indices' = r.cluster_indices
                         /\ pt_pc' = IF Len(r.clusters) = 0 THEN "returned" ELSE "clustered"
                         /\ UNCHANGED exception
                      \/ \* or date2num refuses NaT, depending on the numpy installed
                         /\ NaT \in Range(sorted_ts)
                         /\ pt_pc' = "raised"
                         /\ exception' = "ValueError"
                         /\ UNCHANGED <<dates_num, clusters, cluster_indices>>
    /\ fig' = 0
    /\ UNCHANGED <<fc_pc, threshold_days, columns, data, label_mappings, entity_id, title,
                   show_plot, output_file, axs, slashes, pmtArgs, pmtVars, world>>
    /\ UNCHANGED <<tsVars, cliVars>>

\* lines 231-342: create the figure, lay out every cluster, the break markers, the title
PT_Render ==
    /\ pt_pc = "clustered"
    /\ LET n_clusters == Len(clusters)
           the_title == IF title = <<>> THEN default_title(entity_id) ELSE title
           err == render_error(clusters, 1, scheme_of(color_scheme))
       IN  IF err # ""
           THEN \* set_xlim (line 246) or num2date (line 259) raises ValueError on nan,
                \* color_scheme[key] raises KeyError on a missing key:
                \* the figure of line 232 exists and nothing closes it
                /\ figures' = Append(figures,
                                     [entity_id |-> entity_id, title |-> <<>>, open |-> TRUE])
                /\ pt_pc' = "raised"
                /\ exception' = err
                /\ UNCHANGED <<fig, axs, slashes>>
           ELSE /\ figures' = Append(figures,
                                     [entity_id |-> entity_id, title |-> the_title, open |-> TRUE])
                /\ fig' = Len(figures) + 1
                /\ axs' = axes_of(clusters, cluster_indices, labels)
                /\ slashes' = 2 * Len(break_positions(n_clusters))
                /\ pt_pc' = "rendered"
                /\ UNCHANGED exception
    /\ UNCHANGED <<fcVars, ptArgs, timestamps, labels, pmtArgs, pmtVars, files, dirs>>
    /\ UNCHANGED <<tsVars, cliVars>>

\* fig.savefig succeeds in a directory that exists and is writable
can_write(dir, existing) == dir \in existing /\ dir \in WritableDirs

\* lines 344-356: save, then show or close, and return the figure
PT_Finish ==
    /\ pt_pc = "rendered"
    /\ IF output_file # <<>> /\ ~can_write(output_file[1], dirs)
       THEN \* savefig raises OSError; the figure stays open
            /\ pt_pc' = "raised"
            /\ exception' = "OSError"
            /\ UNCHANGED <<figures, files>>
       ELSE /\ files' = IF output_file # <<>> THEN files \cup {output_file} ELSE files
            /\ figures' = IF show_plot THEN figures
                          ELSE [figures EXCEPT ![fig].open = FALSE]
            /\ pt_pc' = "returned"
            /\ UNCHANGED exception
    /\ UNCHANGED <<fcVars, ptArgs, timestamps, labels, fig, axs, slashes, pmtArgs, pmtVars,
                   dirs>>
    /\ UNCHANGED <<tsVars, cliVars>>

(***************************************************************************)
(* A direct call of plot_timeline on a one-row table                       *)
(***************************************************************************)
\* the colour schemes tried: None, a complete one, and ones without one key
without(scheme, key) == [k \in DOMAIN scheme \ {key} |-> scheme[k]]

ColorSchemes ==
    {NoScheme, DEFAULT_COLOR_SCHEME, without(DEFAULT_COLOR_SCHEME, "title"),
     without(DEFAULT_COLOR_SCHEME, "slashes"), without(DEFAULT_COLOR_SCHEME, "line")}

PTColumns == <<ColA, ColB, ColC>>
PTThresholds == {0, 1, 2}
PTFileName == <<"p","l","o","t",".","p","n","g">>

InitPT ==
    /\ fc_pc = "idle"
    /\ dates_num = <<>>
    /\ threshold_days \in PTThresholds
    /\ clusters = <<>>
    /\ cluster_indices = <<>>
    /\ pt_pc = "start"
    /\ columns = PTColumns
    /\ data \in [Range(PTColumns) -> Cells]
    /\ timestamp_columns \in {None, <<ColC, ColA, ColZ, ColB>>}
    /\ label_mappings = LabelMappings
    /\ entity_id = <<"e","1">>
    /\ title = <<>>
    /\ show_plot \in BOOLEAN
    /\ output_file \in {<<>>, <<"out", PTFileName>>, <<"nodir", PTFileName>>}
    /\ timestamps = <<>>
    /\ labels = <<>>
    /\ fig = 0
    /\ axs = <<>>
    /\ slashes = 0
    /\ exception = ""
    /\ IdlePMT
    /\ color_scheme \in ColorSchemes
    /\ figures = <<>>
    /\ files = {}
    /\ dirs = ExistingDirs
    /\ IdleTS
    /\ IdleCLI

NextPT == PT_Prepare \/ PT_Render \/ PT_Finish

SpecPT == InitPT /\ [][NextPT]_vars

(***************************************************************************)
(* plot_multiple_timelines (src/timeline.py 358-497)                       *)
(***************************************************************************)
IdCol == <<"i","d">>

\* entity_name='Entity'
entity_name == <<"E","n","t","i","t","y">>

\* df[id_column].unique(): the distinct values in order of first appearance
RECURSIVE unique(_)
unique(ids) ==
    IF ids = <<>> THEN <<>>
    ELSE LET init == unique(SubSeq(ids, 1, Len(ids) - 1))
             last == ids[Len(ids)]
         IN  IF last \in Range(init) THEN init ELSE Append(init, last)

\* a variant that keeps one entity more
head_slice_plus1(ids, m) ==
    IF m >= 0 THEN SubSeq(ids, 1, PyMin(m + 1, Len(ids)))
    ELSE SubSeq(ids, 1, Len(ids) + m)

\* entity_ids[:max_entities] (line 439), also for a negative max_entities
head_slice(ids, m) ==
    IF m >= 0 THEN SubSeq(ids, 1, PyMin(m, Len(ids)))
    ELSE SubSeq(ids, 1, Len(ids) + m)

\* line 435 and lines 438-439
select_entities(table, idcol, m) ==
    LET all == IF idcol = <<>> THEN PyRange(0, table.n) ELSE unique(table.ids)
    IN  IF m # NoLimit /\ m # 0 THEN head_slice(all, m) ELSE all

\* list(set(timestamp_columns + detected_columns)): the distinct names in some order
orders_of(S) ==
    {s \in [1..Cardinality(S) -> S] : \A i, j \in 1..Cardinality(S) : s[i] = s[j] => i = j}

\* line 452 / line 455: the entity's identifier as a string
entity_id_str(idcol, id) ==
    IF idcol # <<>> THEN id ELSE <<"r","o","w","_">> \o str_int(id)

\* line 465: every character that is not alphanumeric becomes "_"
safe_id(id_str) == [k \in 1..Len(id_str) |-> IF isalnum(id_str[k]) THEN id_str[k] ELSE "_"]

\* line 466: os.path.join(output_dir, f"{entity_name.lower()}_{safe_id}_timeline.png")
output_path(dir, id_str) ==
    <<dir, str_lower(entity_name) \o <<"_">> \o safe_id(id_str)
           \o <<"_","t","i","m","e","l","i","n","e",".","p","n","g">> >>

\* line 469: f"{entity_name} Timeline - {entity_id_str}"
entity_title(id_str) ==
    entity_name \o <<" ","T","i","m","e","l","i","n","e"," ","-"," ">> \o id_str

\* lines 405-445: the output directory, the timestamp columns, the entities, the threshold
PMT_Setup ==
    /\ pmt_pc = "start"
    /\ LET mkdir == output_dir # "" /\ output_dir \notin dirs
           detected == detect_timestamp_columns(df.columns)
           given == timestamp_columns # None /\ timestamp_columns # <<>>
       IN  IF mkdir /\ output_dir \notin CreatableDirs
           THEN \* os.makedirs raises OSError
                /\ pmt_pc' = "raised"
                /\ exception' = "OSError"
                /\ UNCHANGED <<dirs, timestamp_columns, entity_ids>>
           ELSE /\ dirs' = IF mkdir THEN dirs \cup {output_dir} ELSE dirs
                /\ IF detect_timestamps /\ detected = <<>>
                   THEN \* lines 420-422
                        /\ pmt_pc' = "returned"
                        /\ UNCHANGED <<timestamp_columns, entity_ids, exception>>
                   ELSE /\ timestamp_columns' \in
                              IF ~detect_timestamps THEN {timestamp_columns}
                              ELSE IF given
                                   THEN orders_of(Range(timestamp_columns) \cup Range(detected))
                                   ELSE {detected}
                        /\ IF timestamp_columns' = None \/ timestamp_columns' = <<>>
                           THEN \* lines 430-432
                                /\ pmt_pc' = "returned"
                                /\ UNCHANGED <<entity_ids, exception>>
                           ELSE IF id_column # <<>> /\ id_column \notin Range(df.columns)
                           THEN \* df[id_column] raises KeyError
                                /\ pmt_pc' = "raised"
                                /\ exception' = "KeyError"
                                /\ UNCHANGED entity_ids
                           ELSE /\ entity_ids' = select_entities(df, id_column, max_entities)
                                /\ IF threshold_days <= 0
                                   THEN \* lines 444-445
                                        /\ pmt_pc' = "raised"
                                        /\ exception' = "ValueError"
                                   ELSE /\ pmt_pc' = "loop"
                                        /\ UNCHANGED exception
    /\ pos' = 0
    /\ processed_entities' = <<>>
    /\ UNCHANGED <<fcVars, columns, data, label_mappings, entity_id, title, show_plot,
                   output_file, pt_pc, timestamps, labels, fig, axs, slashes, pmtArgs,
                   row_valid, figures, files>>
    /\ UNCHANGED <<tsVars, cliVars>>

\* the cells a table row can hold: a string in the id column; nothing, a string
\* that is no timestamp or the timestamp of day 0 in a_at; nothing or the
\* timestamp of the last day elsewhere
BatchCells(c) ==
    IF c = IdCol THEN {Bad}
    ELSE IF c = ColA THEN {NA, Bad, TS(0)}
    ELSE {NA, TS(MaxDay)}

\* the rows of the table
BatchRows(table) ==
    {row \in [Range(table.columns) -> Cells] :
        \A c \in Range(table.columns) : row[c] \in BatchCells(c)}

\* the row holds a parseable timestamp in one of the selected columns
has_timestamp(cols, row, tcols) ==
    \E c \in Range(tcols) : c \in Range(cols) /\ row[c].kind = "ts"

\* a missing value of the id column (NaN): unique() keeps it as an entity, but
\* df[id_column] == NaN selects no row
IdNaN == <<"n","a","n">>

\* lines 450-460: the entity has no rows, the loop goes on with the next one
PMT_NoData ==
    /\ pmt_pc = "loop"
    /\ pos < Len(entity_ids)
    /\ id_column # <<>>
    /\ entity_ids[pos + 1] = IdNaN
    /\ pos' = pos + 1
    /\ row_valid' = Append(row_valid, FALSE)
    /\ UNCHANGED <<fcVars, ptArgs, ptVars, pmtArgs, pmt_pc, entity_ids, processed_entities,
                   world>>
    /\ UNCHANGED <<tsVars, cliVars>>

\* lines 448-486: take the next entity and call plot_timeline on its rows.  The
\* entity's first row is read here (df.iloc[[entity_id]], df[df[id_column] == entity_id]).
PMT_Call ==
    /\ pmt_pc = "loop"
    /\ pos < Len(entity_ids)
    /\ ~(id_column # <<>> /\ entity_ids[pos + 1] = IdNaN)
    /\ LET id == entity_ids[pos + 1]
           id_str == entity_id_str(id_column, id)
       IN  \E row \in BatchRows(df) :
             /\ columns' = df.columns
             /\ data' = row
             /\ entity_id' = id_str
             /\ output_file' = IF output_dir # "" THEN output_path(output_dir, id_str) ELSE <<>>
             /\ title' = entity_title(id_str)
             /\ row_valid' = Append(row_valid, has_timestamp(df.columns, row, timestamp_columns))
    /\ pt_pc' = "start"
    /\ pmt_pc' = "in_plot"
    /\ UNCHANGED <<fcVars, timestamp_columns, label_mappings, show_plot, timestamps, labels,
                   fig, axs, slashes, exception, pmtArgs, entity_ids, pos,
                   processed_entities, world>>
    /\ UNCHANGED <<tsVars, cliVars>>

\* a variant that appends the entity whether or not a figure came back
append_processed_always(processed, f, id) == Append(processed, id)

\* lines 488-489
append_processed(processed, f, id) ==
    IF f # 0 THEN Append(processed, id) ELSE processed

\* lines 488-495: plot_timeline has returned
PMT_AfterPlot ==
    /\ pmt_pc = "in_plot"
    /\ pt_pc = "returned"
    /\ processed_entities' = append_processed(processed_entities, fig, entity_id)
    /\ figures' = IF fig # 0 /\ ~show_plot
                  THEN [figures EXCEPT ![fig].open = FALSE]
                  ELSE figures
    /\ pos' = pos + 1
    /\ pmt_pc' = "loop"
    \* the frame of plot_timeline is gone
    /\ pt_pc' = "idle"
    /\ columns' = <<>>
    /\ data' = <<>>
    /\ entity_id' = <<>>
    /\ title' = <<>>
    /\ output_file' = <<>>
    /\ timestamps' = <<>>
    /\ labels' = <<>>
    /\ dates_num' = <<>>
    /\ clusters' = <<>>
    /\ cluster_indices' = <<>>
    /\ fig' = 0
    /\ axs' = <<>>
    /\ slashes' = 0
    /\ UNCHANGED <<fc_pc, threshold_days, timestamp_columns, label_mappings, show_plot,
                   exception, pmtArgs, entity_ids, row_valid, files, dirs>>
    /\ UNCHANGED <<tsVars, cliVars>>

\* plot_timeline has raised: nothing catches the exception (lines 472-486)
PMT_Propagate ==
    /\ pmt_pc = "in_plot"
    /\ pt_pc = "raised"
    /\ pmt_pc' = "raised"
    /\ UNCHANGED <<fcVars, ptArgs, ptVars, pmtArgs, entity_ids, pos, processed_entities,
                   row_valid, world>>
    /\ UNCHANGED <<tsVars, cliVars>>

\* line 497
PMT_Return ==
    /\ pmt_pc = "loop"
    /\ pos = Len(entity_ids)
    /\ pmt_pc' = "returned"
    /\ UNCHANGED <<fcVars, ptArgs, ptVars, pmtArgs, entity_ids, pos, processed_entities,
                   row_valid, world>>
    /\ UNCHANGED <<tsVars, cliVars>>

(***************************************************************************)
(* A call of plot_multiple_timelines on a table                            *)
(***************************************************************************)
MaxRows == 3     \* the table has at most MaxRows rows

IdValues == {<<"a","-","1">>, <<"a","_","1">>, IdNaN}

\* pd.DataFrame() and the tables with columns id, a_at, b-x
Tables ==
    {[columns |-> <<>>, n |-> 0, ids |-> <<>>]}
    \cup {[columns |-> <<IdCol, ColA, ColB>>, n |-> Len(ids), ids |-> ids] :
            ids \in SeqsUpTo(IdValues, MaxRows)}

\* timestamp_columns and detect_timestamps
ColumnChoices ==
    {<<None, FALSE>>, <<(<<ColA, ColB>>), FALSE>>, <<(<<ColZ>>), FALSE>>,
     <<None, TRUE>>, <<(<<ColB>>), TRUE>>}

Init ==
    /\ fc_pc = "idle"
    /\ dates_num = <<>>
    /\ threshold_days \in {-1, 0, 1}
    /\ clusters = <<>>
    /\ cluster_indices = <<>>
    /\ pt_pc = "idle"
    /\ columns = <<>>
    /\ data = <<>>
    /\ \E c \in ColumnChoices : timestamp_columns = c[1] /\ detect_timestamps = c[2]
    /\ label_mappings = LabelMappings
    /\ entity_id = <<>>
    /\ title = <<>>
    /\ show_plot \in BOOLEAN
    /\ output_file = <<>>
    /\ timestamps = <<>>
    /\ labels = <<>>
    /\ fig = 0
    /\ axs = <<>>
    /\ slashes = 0
    /\ exception = ""
    /\ pmt_pc = "start"
    /\ df \in Tables
    /\ id_column \in {<<>>, IdCol}
    \* the id column is not read when id_column is None
    /\ id_column = <<>> => \A k \in 1..df.n : df.ids[k] = <<"a","-","1">>
    /\ output_dir \in {"", "new", "nodir", "ro"}
    /\ max_entities \in {NoLimit, -1, 0, 1, 2}
    /\ color_scheme = NoScheme
    /\ entity_ids = <<>>
    /\ pos = 0
    /\ processed_entities = <<>>
    /\ row_valid = <<>>
    /\ figures = <<>>
    /\ files = {}
    /\ dirs = ExistingDirs
    /\ IdleTS
    /\ IdleCLI

Next ==
    \/ PMT_Setup
    \/ PMT_NoData
    \/ PMT_Call
    \/ PT_Prepare
    \/ PT_Render
    \/ PT_Finish
    \/ PMT_AfterPlot
    \/ PMT_Propagate
    \/ PMT_Return

Spec == Init /\ [][Next]_vars

(***************************************************************************)
(* main (src/cli.py 158-257)                                               *)
(***************************************************************************)
\* lines 190-193
required_keys ==
    <<"line", "point_edge", "point_face", "connector", "label_bg", "label_edge",
      "slashes", "title">>

\* line 194
missing_keys(colors) ==
    LET Missing(key) == key \notin DOMAIN colors
    IN  SelectSeq(required_keys, Missing)

\* create_color_scheme (src/utils.py 241-276)
create_color_scheme(base_color, accent_color) ==
    [k \in {"line", "point_edge", "point_face", "connector",
            "label_bg", "label_edge", "slashes", "title"} |->
        IF k = "point_face" THEN accent_color
        ELSE IF k = "label_bg" THEN "#f5f5f5"
        ELSE base_color]

\* a variant that reports a mapping only when none of its columns exists
invalid_columns_none(mappings, cols) ==
    IF \E col \in DOMAIN mappings : col \in Range(cols) THEN {}
    ELSE DOMAIN mappings

\* line 213: [col for col in args.label_mappings if col not in df.columns]
invalid_columns(mappings, cols) == {col \in DOMAIN mappings : col \notin Range(cols)}

\* a dict that is given and not empty (`if args.colors:`, `if args.label_mappings:`)
truthy(dict) == dict # NoScheme /\ DOMAIN dict # {}

\* lines 166-243: the checks of main, then the call of plot_multiple_timelines
CLI_Main ==
    /\ cli_pc = "start"
    /\ LET reject ==
               \/ ~args.csv_exists                                          \* 172-174
               \/ Len(args.figsize) # 2                                     \* 177-183
               \/ truthy(args.colors) /\ missing_keys(args.colors) # <<>>   \* 189-197
               \/ /\ truthy(args.label_mappings)                            \* 210-216
                  /\ invalid_columns(args.label_mappings, args.table.columns) # {}
           no_columns == args.timestamp_columns \in {None, <<>>} /\ ~args.detect_timestamps
       IN  IF reject
           THEN /\ cli_pc' = "done"
                /\ exit_code' = 1
                /\ UNCHANGED <<timestamp_columns, label_mappings, show_plot, threshold_days,
                               pmtArgs, pmt_pc>>
           ELSE /\ cli_pc' = "in_batch"
                /\ pmt_pc' = "start"
                /\ df' = args.table
                /\ timestamp_columns' = args.timestamp_columns
                /\ id_column' = args.id_column
                /\ detect_timestamps' = (args.detect_timestamps \/ no_columns)  \* 219-223
                /\ output_dir' = args.output_dir
                /\ max_entities' = args.max_entities
                /\ threshold_days' = args.threshold_days
                /\ color_scheme' = IF truthy(args.colors)
                                   THEN create_color_scheme(args.colors["line"],
                                                            args.colors["point_face"])
                                   ELSE NoScheme
                /\ show_plot' = ~args.no_show
                /\ label_mappings' = args.label_mappings
                /\ UNCHANGED exit_code
    /\ UNCHANGED <<fc_pc, dates_num, clusters, cluster_indices, columns, data, entity_id,
                   title, output_file, ptVars, entity_ids, pos, processed_entities,
                   row_valid, world, tsVars, args>>

\* lines 245-251: plot_multiple_timelines has returned
CLI_Return ==
    /\ cli_pc = "in_batch"
    /\ pmt_pc = "returned"
    /\ exit_code' = IF processed_entities = <<>> THEN 1 ELSE 0
    /\ cli_pc' = "done"
    /\ UNCHANGED <<fcVars, ptArgs, ptVars, pmtArgs, pmtVars, world, tsVars, args>>

\* lines 253-257: plot_multiple_timelines has raised
CLI_Except ==
    /\ cli_pc = "in_batch"
    /\ pmt_pc = "raised"
    /\ exit_code' = 1
    /\ cli_pc' = "done"
    /\ UNCHANGED <<fcVars, ptArgs, ptVars, pmtArgs, pmtVars, world, tsVars, args>>

\* the tables a CSV file with a header line holds: up to two data lines
CsvTables == {t \in Tables : t.columns # <<>> /\ t.n <= 2 /\ <<"a","_","1">> \notin Range(t.ids)}

\* --colors: not given, {}, {"line": ...} alone, the default scheme, a complete
\* scheme with a title colour of its own, and complete schemes with one value
\* that is no colour
CliColors ==
    {NoScheme, <<>>, [k \in {"line"} |-> "#336699"], DEFAULT_COLOR_SCHEME,
     [DEFAULT_COLOR_SCHEME EXCEPT !["title"] = "#336699"],
     [DEFAULT_COLOR_SCHEME EXCEPT !["title"] = "not-a-color"],
     [DEFAULT_COLOR_SCHEME EXCEPT !["point_face"] = "not-a-color"]}

\* --label-mappings: not given, a column of the table, and one that is not with one that is
CliLabelMappings ==
    {<<>>, LabelMappings, (ColZ :> <<"E","n","d">>) @@ LabelMappings}

InitCLI ==
    /\ fc_pc = "idle"
    /\ dates_num = <<>>
    /\ threshold_days = 1
    /\ clusters = <<>>
    /\ cluster_indices = <<>>
    /\ pt_pc = "idle"
    /\ columns = <<>>
    /\ data = <<>>
    /\ timestamp_columns = None
    /\ label_mappings = <<>>
    /\ entity_id = <<>>
    /\ title = <<>>
    /\ show_plot = FALSE
    /\ output_file = <<>>
    /\ timestamps = <<>>
    /\ labels = <<>>
    /\ fig = 0
    /\ axs = <<>>
    /\ slashes = 0
    /\ exception = ""
    /\ IdlePMT
    /\ color_scheme = NoScheme
    /\ figures = <<>>
    /\ files = {}
    /\ dirs = ExistingDirs
    /\ IdleTS
    /\ cli_pc = "start"
    /\ exit_code = -1
    /\ \E exists \in BOOLEAN, table \in CsvTables,
          tcols \in {None, <<ColA, ColB>>}, idcol \in {<<>>, IdCol},
          dir \in {"", "new"}, m \in {NoLimit, -1, 1}, thr \in {0, 1},
          colors \in CliColors, mappings \in CliLabelMappings, noshow \in BOOLEAN :
         /\ idcol = <<>> => \A k \in 1..table.n : table.ids[k] = <<"a","-","1">>
         /\ args = [csv_exists |-> exists, table |-> table,
                    timestamp_columns |-> tcols, detect_timestamps |-> FALSE,
                    id_column |-> idcol, output_dir |-> dir, max_entities |-> m,
                    threshold_days |-> thr, figsize |-> <<15, 5>>, colors |-> colors,
                    label_mappings |-> mappings, no_show |-> noshow]

NextCLI ==
    \/ CLI_Main
    \/ PMT_Setup
    \/ PMT_NoData
    \/ PMT_Call
    \/ PT_Prepare
    \/ PT_Render
    \/ PT_Finish
    \/ PMT_AfterPlot
    \/ PMT_Propagate
    \/ PMT_Return
    \/ CLI_Return
    \/ CLI_Except

SpecCLI == InitCLI /\ [][NextCLI]_vars

(***************************************************************************)
(* parse_timestamps (src/utils.py 160-240), format_timestamp               *)
(* (src/timeline.py 107-121) and detect_date_format (src/utils.py 119-156) *)
(*                                                                         *)
(* A value of a column is missing ("na"), a string that is no timestamp    *)
(* ("bad") or a string that is one ("str"); a parsed value is a timestamp  *)
(* ("ts") or pd.NaT ("nat").  A timestamp is a day of January 2024, an     *)
(* hour, a number of microseconds and a UTC offset in hours.               *)
(***************************************************************************)
\* tzinfo is None
NoTz == 99

TSValue(kind, day, hour, us, off) ==
    [kind |-> kind, day |-> day, hour |-> hour, us |-> us, off |-> off]

NAValue  == TSValue("na", 0, 0, 0, NoTz)
BadValue == TSValue("bad", 0, 0, 0, NoTz)
NaTValue == TSValue("nat", 0, 0, 0, NoTz)

\* pd.isna(x)
isna(v) == v.kind \in {"na", "nat"}

\* pd.api.types.is_datetime64_any_dtype(timestamp_series) (line 188)
is_datetime64(values) ==
    values # <<>> /\ \A i \in 1..Len(values) : values[i].kind \in {"ts", "nat"}

\* pd.to_datetime(values, errors=errs).  A value that cannot be parsed raises
\* with 'raise', becomes NaT with 'coerce', and makes the call return its input
\* with 'ignore'.  pandas 3 no longer accepts errors='ignore' and raises.
to_datetime(values, errs, accepts_ignore) ==
    LET bad == \E i \in 1..Len(values) : values[i].kind = "bad"
        conv(v) == IF isna(v) \/ v.kind = "bad" THEN NaTValue ELSE [v EXCEPT !.kind = "ts"]
    IN  IF errs = "ignore" /\ ~accepts_ignore THEN [raised |-> TRUE, value |-> <<>>]
        ELSE IF bad /\ errs = "raise" THEN [raised |-> TRUE, value |-> <<>>]
        ELSE IF bad /\ errs = "ignore" THEN [raised |-> FALSE, value |-> values]
        ELSE [raised |-> FALSE, value |-> [i \in 1..Len(values) |-> conv(values[i])]]

\* lines 197-208
parse_with_dateutil(x, errs) ==
    IF isna(x) THEN [raised |-> FALSE, value |-> NaTValue]
    ELSE IF x.kind # "bad" THEN [raised |-> FALSE, value |-> [x EXCEPT !.kind = "ts"]]
    ELSE IF errs = "raise" THEN [raised |-> TRUE, value |-> x]
    ELSE IF errs = "coerce" THEN [raised |-> FALSE, value |-> NaTValue]
    ELSE [raised |-> FALSE, value |-> x]

\* lines 212-218: what the handler of the fallback does
fallback_failed(values, errs) ==
    IF errs = "raise" THEN [done |-> TRUE, exception |-> "ValueError", value |-> <<>>]
    ELSE IF errs = "coerce"
    THEN [done |-> TRUE, exception |-> "", value |-> [i \in 1..Len(values) |-> NaTValue]]
    ELSE [done |-> TRUE, exception |-> "", value |-> values]

\* lines 187-218: ts_series, or the value returned / the exception raised early
parse_series(values, errs, accepts_ignore) ==
    LET first == to_datetime(values, errs, accepts_ignore)
        each == [i \in 1..Len(values) |-> parse_with_dateutil(values[i], errs)]
        parsed == [i \in 1..Len(values) |-> each[i].value]
        second == to_datetime(parsed, errs, accepts_ignore)
    IN  IF is_datetime64(values) THEN [done |-> FALSE, exception |-> "", value |-> values]
        ELSE IF ~first.raised THEN [done |-> FALSE, exception |-> "", value |-> first.value]
        ELSE IF \E i \in 1..Len(values) : each[i].raised THEN fallback_failed(values, errs)
        ELSE IF second.raised THEN fallback_failed(values, errs)
        ELSE [done |-> FALSE, exception |-> "", value |-> second.value]

\* line 223: any(not pd.isna(ts) and ts.tzinfo is not None for ts in ts_series),
\* from the k-th value on: "yes", "no", or "error" when a value that is no
\* timestamp is asked for its tzinfo (AttributeError)
RECURSIVE has_tz(_, _)
has_tz(values, k) ==
    IF k > Len(values) THEN "no"
    ELSE IF isna(values[k]) THEN has_tz(values, k + 1)
    ELSE IF values[k].kind # "ts" THEN "error"
    ELSE IF values[k].off # NoTz THEN "yes"
    ELSE has_tz(values, k + 1)

\* a variant that drops the offset without converting to UTC
normalize_timestamp_strip(ts) ==
    IF isna(ts) THEN NaTValue
    ELSE IF ts.off # NoTz THEN [ts EXCEPT !.off = NoTz]
    ELSE ts

\* lines 227-236: ts.astimezone(pytz.UTC).replace(tzinfo=None)
normalize_timestamp(ts) ==
    IF isna(ts) THEN NaTValue
    ELSE IF ts.off # NoTz
    THEN LET total == ts.day * 24 + ts.hour - ts.off
         IN  [ts EXCEPT !.day = total \div 24, !.hour = total % 24, !.off = NoTz]
    ELSE ts

\* lines 220-240
normalize_series(values, norm) ==
    IF ~norm \/ values = <<>> THEN [exception |-> "", value |-> values]
    ELSE IF has_tz(values, 1) = "error" THEN [exception |-> "AttributeError", value |-> <<>>]
    ELSE IF has_tz(values, 1) = "no" THEN [exception |-> "", value |-> values]
    ELSE IF \E i \in 1..Len(values) : ~isna(values[i]) /\ values[i].kind # "ts"
    THEN [exception |-> "AttributeError", value |-> <<>>]
    ELSE [exception |-> "", value |-> [i \in 1..Len(values) |-> normalize_timestamp(values[i])]]

\* parse_timestamps(df, column, errors, normalize_tz) on the values of the column
parse_timestamps_full(values, errs, norm, accepts_ignore) ==
    LET p == parse_series(values, errs, accepts_ignore)
    IN  IF p.done THEN [exception |-> p.exception, value |-> p.value]
        ELSE normalize_series(p.value, norm)

\* the decimal digits of n, zero-padded to the given width (strftime %d, %H, %f)
RECURSIVE zfill(_, _)
zfill(n, width) ==
    IF width = 0 THEN <<>> ELSE Append(zfill(n \div 10, width - 1), Digits[(n % 10) + 1])

\* dt.strftime("%Y-%m-%d %H:%M:%S.%f")
strftime(dt) ==
    <<"2","0","2","4","-","0","1","-">> \o zfill(dt.day, 2) \o <<" ">> \o zfill(dt.hour, 2)
        \o <<":","0","0",":","0","0",".">> \o zfill(dt.us, 6)

\* a variant that cuts four characters
format_timestamp_cut4(dt) == SubSeq(strftime(dt), 1, Len(strftime(dt)) - 4)

\* format_timestamp (src/timeline.py 121): [:-3] cuts the last three digits
format_timestamp(dt) == SubSeq(strftime(dt), 1, Len(strftime(dt)) - 3)

\* int(chars) of a string of digits
RECURSIVE to_int(_)
to_int(chars) ==
    IF chars = <<>> THEN 0
    ELSE 10 * to_int(SubSeq(chars, 1, Len(chars) - 1)) + (IndexOf(chars[Len(chars)], Digits) - 1)

RECURSIVE Pow10(_)
Pow10(k) == IF k = 0 THEN 1 ELSE 10 * Pow10(k - 1)

digits_at(str, a, b) == b <= Len(str) /\ \A i \in a..b : InSeq(str[i], Digits)

\* %Y-%m-%d at the start of the string
has_date(str) ==
    /\ digits_at(str, 1, 4) /\ digits_at(str, 6, 7) /\ digits_at(str, 9, 10)
    /\ str[5] = "-" /\ str[8] = "-"
    /\ to_int(SubSeq(str, 6, 7)) \in 1..12
    /\ to_int(SubSeq(str, 9, 10)) \in 1..31

\* %Y-%m-%d, the separator, %H:%M:%S
has_time(str, separator) ==
    /\ Len(str) >= 19
    /\ has_date(str)
    /\ str[11] = separator
    /\ digits_at(str, 12, 13) /\ digits_at(str, 15, 16) /\ digits_at(str, 18, 19)
    /\ str[14] = ":" /\ str[17] = ":"
    /\ to_int(SubSeq(str, 12, 13)) <= 23
    /\ to_int(SubSeq(str, 15, 16)) <= 59
    /\ to_int(SubSeq(str, 18, 19)) <= 61

\* the formats detect_date_format tries, in its order (lines 134-147)
formats ==
    <<"%Y-%m-%dT%H:%M:%S.%fZ", "%Y-%m-%d %H:%M:%S.%f", "%Y-%m-%d %H:%M:%S",
      "%Y-%m-%dT%H:%M:%S.%fZ", "%Y-%m-%dT%H:%M:%SZ", "%Y-%m-%d",
      "%m/%d/%Y %H:%M:%S", "%m/%d/%Y", "%d-%b-%Y %H:%M:%S", "%d-%b-%Y",
      "%b %d, %Y %H:%M:%S", "%b %d, %Y">>

\* datetime.strptime(str, fmt) does not raise.  %f takes one to six digits.  The
\* formats with a slash or a month name match no string that starts with a
\* four-digit year and a dash.
strptime_ok(str, fmt) ==
    IF fmt = "%Y-%m-%dT%H:%M:%S.%fZ"
    THEN /\ has_time(str, "T") /\ Len(str) \in 22..27 /\ str[20] = "."
         /\ str[Len(str)] = "Z" /\ digits_at(str, 21, Len(str) - 1)
    ELSE IF fmt = "%Y-%m-%d %H:%M:%S.%f"
    THEN /\ has_time(str, " ") /\ Len(str) \in 21..26 /\ str[20] = "."
         /\ digits_at(str, 21, Len(str))
    ELSE IF fmt = "%Y-%m-%d %H:%M:%S" THEN has_time(str, " ") /\ Len(str) = 19
    ELSE IF fmt = "%Y-%m-%dT%H:%M:%SZ"
    THEN has_time(str, "T") /\ Len(str) = 20 /\ str[20] = "Z"
    ELSE IF fmt = "%Y-%m-%d" THEN Len(str) = 10 /\ has_date(str)
    ELSE FALSE

\* detect_date_format (src/utils.py 149-156): the first format that parses, "" for None
RECURSIVE detect_from(_, _)
detect_from(sample_date, k) ==
    IF k > Len(formats) THEN ""
    ELSE IF strptime_ok(sample_date, formats[k]) THEN formats[k]
    ELSE detect_from(sample_date, k + 1)

detect_date_format(sample_date) == detect_from(sample_date, 1)

\* datetime.strptime(str, fmt) for a format that parses: %f is padded with zeros on
\* the right to six digits
strptime(str, fmt) ==
    LET frac_end == IF fmt = "%Y-%m-%dT%H:%M:%S.%fZ" THEN Len(str) - 1 ELSE Len(str)
        frac == IF fmt \in {"%Y-%m-%dT%H:%M:%S.%fZ", "%Y-%m-%d %H:%M:%S.%f"}
                THEN SubSeq(str, 21, frac_end) ELSE <<>>
    IN  TSValue("ts",
                to_int(SubSeq(str, 9, 10)),
                IF Len(str) >= 13 THEN to_int(SubSeq(str, 12, 13)) ELSE 0,
                to_int(frac) * Pow10(6 - Len(frac)),
                NoTz)

\* a call of parse_timestamps; pandas accepts errors='ignore' or no longer does
ParseTimestamps ==
    /\ ts_pc = "call"
    /\ \E accepts_ignore \in BOOLEAN :
         LET r == parse_timestamps_full(series, errors, normalize_tz, accepts_ignore)
         IN  /\ ts_pc' = IF r.exception = "" THEN "returned" ELSE "raised"
             /\ result' = r.value
             /\ exception' = r.exception
    /\ UNCHANGED <<fcVars, ptArgs, pt_pc, timestamps, labels, fig, axs, slashes, pmtArgs,
                   pmtVars, world, series, errors, normalize_tz, display, reparsed, cliVars>>

\* format_timestamp of the first value returned, when it is a timestamp
FormatTimestamp ==
    /\ ts_pc = "returned"
    /\ result # <<>>
    /\ result[1].kind = "ts"
    /\ display' = format_timestamp(result[1])
    /\ ts_pc' = "formatted"
    /\ UNCHANGED <<fcVars, ptArgs, ptVars, pmtArgs, pmtVars, world, series, errors,
                   normalize_tz, result, reparsed, cliVars>>

\* the display string parsed again with the format detect_date_format finds for it
Reparse ==
    /\ ts_pc = "formatted"
    /\ LET fmt == detect_date_format(display)
       IN  reparsed' = IF fmt = "" THEN <<>> ELSE <<strptime(display, fmt)>>
    /\ ts_pc' = "reparsed"
    /\ UNCHANGED <<fcVars, ptArgs, ptVars, pmtArgs, pmtVars, world, series, errors,
                   normalize_tz, result, display, cliVars>>

MaxSeries == 2   \* the column has at most MaxSeries values

\* the strings that are timestamps: naive ones and ones with an offset
StrValues ==
    {TSValue("str", d, h, u, o) :
        d \in {2, 3}, h \in {0, 23}, u \in {1999, 999999}, o \in {NoTz, 0, 1}}
    \cup {TSValue("str", 2, 0, 0, NoTz)}

InitTS ==
    /\ fc_pc = "idle"
    /\ dates_num = <<>>
    /\ threshold_days = 1
    /\ clusters = <<>>
    /\ cluster_indices = <<>>
    /\ pt_pc = "idle"
    /\ columns = <<>>
    /\ data = <<>>
    /\ timestamp_columns = None
    /\ label_mappings = <<>>
    /\ entity_id = <<>>
    /\ title = <<>>
    /\ show_plot = FALSE
    /\ output_file = <<>>
    /\ timestamps = <<>>
    /\ labels = <<>>
    /\ fig = 0
    /\ axs = <<>>
    /\ slashes = 0
    /\ exception = ""
    /\ IdlePMT
    /\ color_scheme = NoScheme
    /\ figures = <<>>
    /\ files = {}
    /\ dirs = ExistingDirs
    /\ ts_pc = "call"
    /\ series \in SeqsUpTo(StrValues \cup {NAValue, BadValue}, MaxSeries)
    /\ errors \in {"coerce", "raise", "ignore"}
    /\ normalize_tz \in BOOLEAN
    /\ result = <<>>
    /\ display = <<>>
    /\ reparsed = <<>>
    /\ IdleCLI

NextTS == ParseTimestamps \/ FormatTimestamp \/ Reparse

SpecTS == InitTS /\ [][NextTS]_vars

(***************************************************************************)
(* Helpers of the properties                                               *)
(***************************************************************************)
RECURSIVE Concat(_)
Concat(ss) == IF ss = <<>> THEN <<>> ELSE Head(ss) \o Concat(Tail(ss))

IsSorted(s) == \A i \in 1..(Len(s) - 1) : s[i] <= s[i + 1]

SeqMin(s) == CHOOSE x \in {s[i] : i \in 1..Len(s)} : \A i \in 1..Len(s) : x <= s[i]
SeqMax(s) == CHOOSE x \in {s[i] : i \in 1..Len(s)} : \A i \in 1..Len(s) : x >= s[i]

\* find_clusters has returned from a call with a positive threshold and a sorted input
FCReturnedSorted == fc_pc = "returned" /\ threshold_days > 0 /\ IsSorted(dates_num)

(***************************************************************************)
(* Properties                                                              *)
(***************************************************************************)

\* C1: for a positive threshold and a sorted input, the clusters concatenated in
\* order are the input and the index lists concatenated are 0, 1, ..., n-1:
\* no event is lost, duplicated or reordered.
C1_Partition ==
    FCReturnedSorted =>
        /\ Concat(clusters) = dates_num
        /\ Concat(cluster_indices) = PyRange(0, Len(dates_num))

C1_Witness ==
    /\ FCReturnedSorted
    /\ dates_num = <<0, 1, 3, 4>>
    /\ threshold_days = 1
    /\ Len(clusters) = 2

\* C2: for a positive threshold and a sorted input, find_clusters splits exactly at
\* the gaps strictly greater than the threshold: adjacent clusters are more than
\* the threshold apart, consecutive members of a cluster are at most the threshold
\* apart, and there is one cluster more than there are gaps above the threshold.
C2_SplitsAtGaps ==
    FCReturnedSorted =>
        /\ \A k \in 1..(Len(clusters) - 1) :
              SeqMin(clusters[k + 1]) - SeqMax(clusters[k]) > threshold_days
        /\ \A k \in 1..Len(clusters) :
              \A j \in 1..(Len(clusters[k]) - 1) :
                  clusters[k][j + 1] - clusters[k][j] <= threshold_days
        /\ Len(clusters) =
              1 + Cardinality({i \in 1..(Len(dates_num) - 1) :
                                  dates_num[i + 1] - dates_num[i] > threshold_days})

\* days 0, 1, 3, 4 with threshold 1 (the gap of 1 does not split, the gap of 2
\* does): two clusters of two events each
C2_Witness ==
    /\ FCReturnedSorted
    /\ dates_num = <<0, 1, 3, 4>>
    /\ threshold_days = 1
    /\ clusters = << <<0, 1>>, <<3, 4>> >>

\* C3: find_clusters on an empty input returns zero clusters and zero index
\* lists, for any threshold.
C3_EmptyGivesEmpty ==
    (fc_pc = "returned" /\ Len(dates_num) = 0) =>
        (clusters = <<>> /\ cluster_indices = <<>>)

\* C4: find_clusters on a one-element input returns one cluster holding that
\* instant and the index lists [[0]], for any threshold.
C4_Single ==
    (fc_pc = "returned" /\ Len(dates_num) = 1) =>
        /\ clusters = << <<dates_num[1]>> >>
        /\ cluster_indices = << <<0>> >>

C4_Witness ==
    /\ fc_pc = "returned"
    /\ dates_num = <<2>>
    /\ threshold_days <= 0
    /\ Len(clusters) = 1

\* C5: threshold_days <= 0 is rejected for any non-empty input: find_clusters
\* never returns a cluster layout for a zero or negative threshold.
C5_RejectsNonPositive ==
    ~(fc_pc = "returned" /\ threshold_days <= 0 /\ Len(dates_num) > 0)

\* C6: with max_entities = m >= 1 on a table of more than m entities, only the
\* first m entities in table order are considered: every figure and every file
\* written belongs to one of them, the list holds at most m entries, and the list
\* returned holds exactly m when each of the first m rows has a valid timestamp.
AllEntities == select_entities(df, id_column, NoLimit)

FirstEntities(m) ==
    {entity_id_str(id_column, AllEntities[k]) : k \in 1..PyMin(m, Len(AllEntities))}

C6_MaxEntities ==
    (pmt_pc \notin {"idle", "start"} /\ max_entities >= 1 /\ Len(AllEntities) > max_entities) =>
        /\ \A k \in 1..Len(figures) : figures[k].entity_id \in FirstEntities(max_entities)
        /\ \A f \in files :
              \E id \in FirstEntities(max_entities) : f = output_path(output_dir, id)
        /\ Range(processed_entities) \subseteq FirstEntities(max_entities)
        /\ Len(processed_entities) <= max_entities
        /\ Len(row_valid) <= max_entities
        /\ (pmt_pc = "returned" /\ Len(row_valid) = max_entities
              /\ \A k \in 1..Len(row_valid) : row_valid[k])
           => Len(processed_entities) = max_entities

\* 3 rows, max_entities=2: two entities processed, two files, a list of length 2
C6_Witness ==
    /\ pmt_pc = "returned"
    /\ df.n = 3
    /\ id_column = <<>>
    /\ max_entities = 2
    /\ Len(processed_entities) = 2
    /\ Cardinality(files) = 2
    /\ Len(figures) = 2

\* C7: a record whose selected timestamp fields are all missing is skipped without
\* an error: plot_timeline returns (None, None) without creating a figure or
\* writing a file, and plot_multiple_timelines leaves the entity out of its list
\* and goes on with the next entity.
SelectedColumns ==
    IF timestamp_columns = None THEN detect_timestamp_columns(columns) ELSE timestamp_columns

AllMissing ==
    \A c \in Range(SelectedColumns) : c \notin Range(columns) \/ data[c] = NA

C7_AllMissingSkipped ==
    [][/\ (pt_pc = "start" /\ AllMissing) =>
            /\ pt_pc' = "returned"
            /\ fig' = 0
            /\ exception' = exception
            /\ figures' = figures
            /\ files' = files
       /\ (pmt_pc = "in_plot" /\ pt_pc = "returned" /\ AllMissing) =>
            /\ pmt_pc' = "loop"
            /\ pos' = pos + 1
            /\ processed_entities' = processed_entities
            /\ figures' = figures
            /\ files' = files
            /\ exception' = exception]_vars

\* the first row had no timestamp and was skipped, the second one was plotted
C7_Witness ==
    /\ pmt_pc = "returned"
    /\ row_valid = <<FALSE, TRUE>>
    /\ id_column = <<>>
    /\ processed_entities = << <<"r","o","w","_","1">> >>
    /\ Len(figures) = 1
    /\ exception = ""

\* C8: a selected field whose value is present but is no timestamp is left out of
\* the events: no missing marker is in the sequence that is sorted and handed to
\* find_clusters, and the record's other fields are still plotted (no error).
C8_BadFieldExcluded ==
    pt_pc \in {"clustered", "rendered", "returned", "raised"} =>
        /\ NaT \notin Range(timestamps)
        /\ NaN \notin Range(dates_num)
        /\ ~(pt_pc = "raised" /\ exception = "ValueError")

\* C9: in plot_multiple_timelines a failure while building or rendering one
\* entity's timeline does not abort the call: once the loop has taken an entity,
\* only a resource error (an unwritable output path) leaves the call.
C9_FailureContained ==
    (pmt_pc = "raised" /\ Len(row_valid) > 0) => exception = "OSError"

\* C10: the list returned holds exactly the identifiers of the entities for which
\* plot_timeline produced a figure, each once, in the order of iteration.
IterationOrder == [k \in 1..Len(entity_ids) |-> entity_id_str(id_column, entity_ids[k])]

HasFigure(id) == \E k \in 1..Len(figures) : figures[k].entity_id = id

C10_ProcessedAreFigures ==
    /\ pmt_pc \in {"loop", "in_plot", "returned"} =>
          /\ processed_entities = SelectSeq(SubSeq(IterationOrder, 1, pos), HasFigure)
          /\ \A i, j \in 1..Len(processed_entities) :
                processed_entities[i] = processed_entities[j] => i = j
    /\ pmt_pc = "returned" =>
          /\ processed_entities = [k \in 1..Len(figures) |-> figures[k].entity_id]
          /\ \A k \in 1..Len(figures) : figures[k].title # <<>>

C10_Witness ==
    /\ pmt_pc = "returned"
    /\ row_valid = <<TRUE, FALSE, TRUE>>
    /\ Len(processed_entities) = 2
    /\ Len(figures) = 2

\* C11: within one plot_multiple_timelines call with an output directory, any two
\* distinct entity identifiers whose images were written have distinct output
\* file paths, so there are as many image files as entities processed.
C11_DistinctPaths ==
    output_dir # "" =>
        /\ \A i, j \in 1..Len(processed_entities) :
              processed_entities[i] # processed_entities[j] =>
                  output_path(output_dir, processed_entities[i])
                      # output_path(output_dir, processed_entities[j])
        /\ (pmt_pc = "returned" => Cardinality(files) = Len(processed_entities))

\* C12: a colour scheme missing one of the eight required keys is rejected before
\* any rendering attempt: no figure is created and no file is written for it.
RequiredKeys == DOMAIN DEFAULT_COLOR_SCHEME

MissingKey == color_scheme # NoScheme /\ ~(RequiredKeys \subseteq DOMAIN color_scheme)

C12_MissingKeyRejected ==
    MissingKey => (figures = <<>> /\ files = {})

\* C13: under parse_timestamps with normalize_tz=True, two timezone-aware
\* representations of the same absolute moment with different UTC offsets give
\* identical canonical timestamps: naive, and holding the moment's UTC time.
Aware(v) == v.kind = "str" /\ v.off # NoTz

UTCHour(v) == v.day * 24 + v.hour - v.off

ParseReturned == ts_pc \in {"returned", "formatted", "reparsed"}

C14_RoundTrip ==
    (ts_pc = "reparsed" /\ result[1].off = NoTz) =>
        /\ Len(display) = 23
        /\ display[20] = "."
        /\ digits_at(display, 21, 23)
        /\ detect_date_format(display) = "%Y-%m-%d %H:%M:%S.%f"
        /\ reparsed = <<[result[1] EXCEPT !.us = (result[1].us \div 1000) * 1000]>>

C14_Witness ==
    /\ ts_pc = "reparsed"
    /\ result[1] = TSValue("ts", 2, 23, 999999, NoTz)
    /\ reparsed = <<TSValue("ts", 2, 23, 999000, NoTz)>>

\* C15: on a column of unparseable values parse_timestamps raises ValueError with
\* errors='raise', returns NaT for every value with errors='coerce', and returns
\* the original values unchanged with errors='ignore'.
AllUnparseable == series # <<>> /\ \A i \in 1..Len(series) : series[i] = BadValue

C15_ErrorPolicy ==
    (ts_pc # "call" /\ ts_pc # "idle" /\ AllUnparseable) =>
        /\ errors = "raise" => (ts_pc = "raised" /\ exception = "ValueError")
        /\ errors = "coerce" =>
              (ts_pc = "returned" /\ result = [i \in 1..Len(series) |-> NaTValue])
        /\ errors = "ignore" => (ts_pc = "returned" /\ result = series)

\* C16: all-or-nothing per record: a plot_timeline call that fails, or returns no
\* figure, leaves no output file, and a file is written only after every cluster,
\* every label and every break marker of the record has been laid out.
RECURSIVE SumLen(_)
SumLen(ss) == IF ss = <<>> THEN 0 ELSE Len(Head(ss)) + SumLen(Tail(ss))

LaidOut ==
    /\ fig # 0
    /\ Len(axs) = Len(clusters)
    /\ \A k \in 1..Len(axs) :
          /\ axs[k].points = clusters[k]
          /\ Len(axs[k].annotations) = Len(clusters[k])
    /\ SumLen(clusters) = Len(timestamps)
    /\ slashes = 2 * (Len(clusters) - 1)

C16_AllOrNothing ==
    /\ pt_pc = "raised" => files = {}
    /\ (pt_pc = "returned" /\ fig = 0) => files = {}
    /\ files # {} => (pt_pc = "returned" /\ files = {output_file} /\ LaidOut)

\* a record of three events in two clusters has been written
C16_Witness ==
    /\ pt_pc = "returned"
    /\ files = {output_file}
    /\ Len(clusters) = 2
    /\ Len(timestamps) = 3
    /\ slashes = 2

\* C17: every figure created is released, also on error: once plot_timeline with
\* show_plot=False has returned or raised, no figure it created is still open.
C17_FiguresReleased ==
    (pt_pc \in {"returned", "raised"} /\ ~show_plot) =>
        \A k \in 1..Len(figures) : ~figures[k].open

\* C18: a label-override mapping that names a column absent from the input table
\* makes main return a non-zero exit code without calling
\* plot_multiple_timelines: nothing is rendered or written, even when the other
\* mapped columns exist.
MappingAbsent ==
    /\ truthy(args.label_mappings)
    /\ \E col \in DOMAIN args.label_mappings : col \notin Range(args.table.columns)

C18_UnknownMappedColumn ==
    (cli_pc # "idle" /\ MappingAbsent) =>
        /\ cli_pc \in {"start", "done"}
        /\ pmt_pc = "idle"
        /\ figures = <<>>
        /\ files = {}
        /\ cli_pc = "done" => exit_code = 1

\* the file exists, the colours are accepted, one mapped column exists and one does not
C18_Witness ==
    /\ cli_pc = "done"
    /\ exit_code = 1
    /\ args.csv_exists
    /\ args.colors = DEFAULT_COLOR_SCHEME
    /\ args.threshold_days = 1
    /\ args.max_entities = NoLimit
    /\ args.table.n = 2
    /\ DOMAIN args.label_mappings = {ColA, ColZ}
    /\ ColA \in Range(args.table.columns)
    /\ ColZ \notin Range(args.table.columns)

\* C20: whenever --threshold-days is zero or negative or --max-entities is
\* negative, main returns 1 and never reports success, whatever the input file.
InvalidNumeric ==
    \/ args.threshold_days <= 0
    \/ args.max_entities # NoLimit /\ args.max_entities < 0

C20_InvalidNumericFails ==
    (cli_pc = "done" /\ InvalidNumeric) => exit_code = 1

\* C19: plot_multiple_timelines on a table with no rows, or with selected
\* timestamp columns none of which is in the table, does not raise and returns
\* an empty list, produces no figure and writes no file, when threshold_days
\* is positive, the output directory exists or can be created, and id_column is
\* None or a column of the table.
Mismatched ==
    /\ timestamp_columns # None
    /\ timestamp_columns # <<>>
    /\ \A c \in Range(timestamp_columns) : c \notin Range(df.columns)

ValidCall ==
    /\ threshold_days > 0
    /\ output_dir = "" \/ output_dir \in ExistingDirs \cup CreatableDirs
    /\ id_column = <<>> \/ id_column \in Range(df.columns)

C19_EmptyNotFatal ==
    (ValidCall /\ (df.n = 0 \/ Mismatched)) =>
        /\ pmt_pc # "raised"
        /\ exception = ""
        /\ processed_entities = <<>>
        /\ figures = <<>>
        /\ files = {}

\* two rows, the selected column is not in the table: both entities were taken
\* and skipped, and the empty list was returned
C19_Witness ==
    /\ pmt_pc = "returned"
    /\ ValidCall
    /\ Mismatched
    /\ df.n = 2
    /\ Len(row_valid) = 2
    /\ processed_entities = <<>>

\* C19 as stated, for every call: on a table with no rows, or with selected
\* timestamp columns that are not in the table, plot_multiple_timelines never
\* raises and returns an empty list.
C19_AsStated ==
    (df.n = 0 \/ Mismatched) =>
        /\ pmt_pc # "raised"
        /\ pmt_pc = "returned" => processed_entities = <<>>

\* C21: a colour value that is no colour is rejected: create_color_scheme raises
\* ValueError for it, so main never calls plot_multiple_timelines with a scheme
\* holding one, and main returns 1 whenever the complete eight-key scheme it
\* was given holds one.
HasInvalidColor(colors) == \E k \in DOMAIN colors : ~is_color(colors[k])

CompleteScheme == truthy(args.colors) /\ missing_keys(args.colors) = <<>>

C21_MalformedColorRejected ==
    /\ (cli_pc = "in_batch" /\ color_scheme # NoScheme) => ~HasInvalidColor(color_scheme)
    /\ (cli_pc = "done" /\ CompleteScheme /\ HasInvalidColor(args.colors)) => exit_code = 1

\* C29: given a complete eight-key scheme, main hands plot_multiple_timelines
\* the user's value for each of the eight keys.
C29_UserSchemeHonored ==
    (cli_pc = "in_batch" /\ CompleteScheme) =>
        \A k \in Range(required_keys) : color_scheme[k] = args.colors[k]

\* C22: plot_timeline sorts the events ascending by instant before clustering:
\* the instants of the sorted events, and of the sequence passed to
\* find_clusters, never decrease from an earlier position to a later one, and
\* events with equal instants keep the order of their columns in
\* timestamp_columns.
SelectedLabels ==
    LET valid == valid_columns(columns, data, timestamp_columns)
    IN  [k \in 1..Len(valid) |-> column_label(valid[k], label_mappings)]

SelectedPosition(label) == CHOOSE k \in 1..Len(SelectedLabels) : SelectedLabels[k] = label

C22_SortedStable ==
    pt_pc # "start" =>
        /\ \A i, j \in 1..Len(timestamps) :
              (i < j /\ timestamps[i] # NaT /\ timestamps[j] # NaT) =>
                  timestamps[i] <= timestamps[j]
        /\ \A i, j \in 1..Len(dates_num) :
              (i < j /\ dates_num[i] # NaN /\ dates_num[j] # NaN) =>
                  dates_num[i] <= dates_num[j]
        /\ \A i, j \in 1..Len(timestamps) :
              (i < j /\ timestamps[i] = timestamps[j]) =>
                  SelectedPosition(labels[i]) < SelectedPosition(labels[j])

\* plot_timeline has drawn every cluster of the record on a figure
Rendered == pt_pc \in {"rendered", "returned"} /\ fig # 0

\* C23: inside each cluster the labels alternate by the position inside that
\* cluster, starting afresh in every cluster: the events at even 0-based
\* positions are labelled above the line, those at odd positions below.
C23_LabelsAlternate ==
    Rendered =>
        \A k \in 1..Len(axs) :
            \A j \in 1..Len(axs[k].annotations) :
                axs[k].annotations[j].above <=> (j % 2 = 1)

\* a one-event cluster, then a cluster of two events: the second cluster starts
\* above the line again
C23_Witness ==
    /\ Rendered
    /\ Len(axs) = 2
    /\ Len(axs[1].annotations) = 1
    /\ Len(axs[2].annotations) = 2
    /\ axs[1].annotations[1].above
    /\ axs[2].annotations[1].above
    /\ ~axs[2].annotations[2].above

\* C24: the width ratio of every cluster is its number of events, so the ratios
\* add up to the number of events of the record; the padding of a cluster of
\* two or more events is 15% of its span, that of a one-event cluster is the
\* fixed 0.1 day (paddings in hundredths of a day).
C24_WidthAndPadding ==
    Rendered =>
        /\ \A k \in 1..Len(axs) :
              /\ axs[k].width_ratio = Len(axs[k].points)
              /\ axs[k].width_ratio = Len(clusters[k])
              /\ Len(clusters[k]) >= 2 =>
                    axs[k].padding = 15 * (SeqMax(clusters[k]) - SeqMin(clusters[k]))
              /\ Len(clusters[k]) = 1 => axs[k].padding = 10
        /\ SumLen([k \in 1..Len(axs) |-> axs[k].points]) = Len(timestamps)

\* a one-event cluster beside a cluster of two events one day apart
C24_Witness ==
    /\ Rendered
    /\ Len(axs) = 2
    /\ axs[1].width_ratio = 1
    /\ axs[1].padding = 10
    /\ axs[2].width_ratio = 2
    /\ axs[2].padding = 15

\* C25: a record drawn as k clusters gets exactly k - 1 breaks, each of two
\* slashes, one between every two adjacent clusters; a record drawn as a single
\* cluster gets none.
C25_BreaksBetweenClusters ==
    Rendered =>
        /\ slashes = 2 * (Len(axs) - 1)
        /\ Len(axs) = 1 => slashes = 0

\* three clusters with their two breaks
C25_Witness ==
    /\ Rendered
    /\ Len(axs) = 3
    /\ slashes = 4

\* C27: label and instant stay paired through sorting and clustering: every
\* annotation drawn carries the instant of one selected column together with
\* that column's label (its label_mappings entry, else its cleaned name), and
\* every selected column with a value is annotated once.
AnnotationsDrawn == Concat([k \in 1..Len(axs) |-> axs[k].annotations])

C27_LabelInstantPaired ==
    Rendered =>
        LET valid == valid_columns(columns, data, timestamp_columns)
            Pair(k) == [x     |-> parse_timestamps(data[valid[k]]),
                        label |-> column_label(valid[k], label_mappings)]
        IN  /\ Len(AnnotationsDrawn) = Len(valid)
            /\ \A k \in 1..Len(valid) :
                  \E j \in 1..Len(AnnotationsDrawn) :
                      /\ AnnotationsDrawn[j].x = Pair(k).x
                      /\ AnnotationsDrawn[j].label = Pair(k).label

\* three events over two clusters, drawn in another order than their columns
\* were given: the mapped label "Start" is the last event
C27_Witness ==
    /\ Rendered
    /\ Len(axs) = 2
    /\ Len(AnnotationsDrawn) = 3
    /\ SelectedLabels[2] = LabelMappings[ColA]
    /\ AnnotationsDrawn[3].label = LabelMappings[ColA]
    /\ AnnotationsDrawn[3].x = data[ColA].day
    /\ AnnotationsDrawn[1].label = clean_column_name(ColB, DefaultRemoveSuffixes)

\* C26: for every input, the empty one included, find_clusters returns two
\* lists of the same length, the k-th index list is as long as the k-th
\* cluster, and the j-th value of the k-th cluster is the input value at the
\* j-th index of the k-th index list.
C26_IndicesMatchClusters ==
    fc_pc = "returned" =>
        /\ Len(clusters) = Len(cluster_indices)
        /\ \A k \in 1..PyMin(Len(clusters), Len(cluster_indices)) :
              /\ Len(clusters[k]) = Len(cluster_indices[k])
              /\ \A j \in 1..PyMin(Len(clusters[k]), Len(cluster_indices[k])) :
                    clusters[k][j] = dates_num[cluster_indices[k][j] + 1]

\* C28: every cluster is drawn on an x-range of strictly positive width that
\* strictly contains its points: the padding is greater than zero for every
\* cluster, also for one of two or more events at the same instant (limits and
\* paddings in hundredths of a day).
C28_PositivePadding ==
    (Rendered /\ threshold_days > 0) =>
        \A k \in 1..Len(axs) :
            /\ axs[k].padding > 0
            /\ axs[k].xlim[1] < axs[k].xlim[2]
            /\ \A j \in 1..Len(axs[k].points) :
                  /\ axs[k].xlim[1] < 100 * axs[k].points[j]
                  /\ 100 * axs[k].points[j] < axs[k].xlim[2]

\* C30: when plot_multiple_timelines is given threshold_days <= 0 it raises
\* whether or not timestamp columns were found, never returns, and has had no
\* effect: no output directory created, no figure, no file.
C30_RejectionWithoutEffect ==
    (pmt_pc # "idle" /\ threshold_days <= 0) =>
        /\ pmt_pc # "returned"
        /\ dirs = ExistingDirs
        /\ figures = <<>>
        /\ files = {}

====
